---------------------------- MODULE Spec2Model ----------------------------
(***************************************************************************)
(* Model of the OIDC authentication / role-authorization pipeline of       *)
(* cloud-based-oidc:                                                       *)
(*   - fetchUserRoles, profile, callbacks.jwt, callbacks.session           *)
(*       (src/pages/api/auth/[...nextauth].ts)                             *)
(*   - withAuth                       (src/unnamed/part_001)               *)
(*   - the getServerSideProps loaders (src/unnamed/part_005, part_006,     *)
(*       src/pages/dashboard.tsx)                                          *)
(*                                                                         *)
(* Representation of JavaScript values:                                    *)
(*   - an optional string is a TLA+ string, `undefined` being Undefined;   *)
(*   - a scope string is the sequence of its pieces: each piece is either  *)
(*     a whitespace character or a maximal whitespace-free word, so two    *)
(*     adjacent words are ONE longer word ("adminstaff");                  *)
(*   - an access token string is the sequence of its dot-free segments;    *)
(*     a segment is described by what base64 decoding it yields;           *)
(*   - an optional object is a record with a `defined` field.              *)
(***************************************************************************)
EXTENDS Integers, Sequences, FiniteSets, TLC

VARIABLES
    \* --- token processor (fetchUserRoles called on its own) ---
    fAccessToken,   \* the accessToken argument of the last call
    fUserId,        \* the userId argument of the last call
    fResult,        \* what the last call did: [called, threw, roles]
    fUserId2,       \* the userId of a second call with the same accessToken
    fResult2,       \* what that second call did
    \* --- session enricher (callbacks.jwt, callbacks.session) ---
    token,          \* the durable token record (the JWT): [user, accessToken]
    session,        \* the session view last returned for the current record
    lastOp,         \* the callback that ran last
    jwtArgs,        \* account, profile and user of the last token issuance
    sessionArg,     \* the session object the last session callback was given
    prevSession,    \* the view returned before `session` for the current record
    \* --- route guard and page-data loaders ---
    gContext,       \* the request context: [id, session]
    gRequiredRoles, \* the requiredRoles argument of withAuth
    gLoader,        \* the page-data loader withAuth wraps
    gOut,           \* what handling the request did
    \* --- client pages (useSession, useEffect, render) ---
    cPage,          \* the page component that is mounted
    cStatus,        \* useSession().status
    cSession,       \* useSession().data
    cView,          \* what the last render of the page returned
    cLayout,        \* what Layout computed in that render
    cNav,           \* the destination of the last router.push, if any
    cPc,            \* what React does next: render, run the effect, or idle
    \* --- two requests in flight at once ---
    rqInput,        \* per request: token, account, profile, user, session
    rqPc,           \* per request: the step it is at
    rqToken,        \* per request: its token object
    rqRoles,        \* per invocation of callbacks.jwt: its local `roles`
    rqSession       \* per request: the session view returned

varsRoles == <<fAccessToken, fUserId, fResult, fUserId2, fResult2>>
varsSession == <<token, session, lastOp, jwtArgs, sessionArg, prevSession>>
varsGuard == <<gContext, gRequiredRoles, gLoader, gOut>>

varsClient == <<cPage, cStatus, cSession, cView, cLayout, cNav, cPc>>
varsRequests == <<rqInput, rqPc, rqToken, rqRoles, rqSession>>
vars == <<fAccessToken, fUserId, fResult, fUserId2, fResult2,
          token, session, lastOp, jwtArgs, sessionArg, prevSession,
          gContext, gRequiredRoles, gLoader, gOut,
          cPage, cStatus, cSession, cView, cLayout, cNav, cPc,
          rqInput, rqPc, rqToken, rqRoles, rqSession>>

---------------------------------------------------------------------------
(* Bounds *)

\* longest scope string, in pieces
MaxScopeLen == 3
\* longest roles list of a session handed to the guard
MaxRoles == 2
\* longest requiredRoles list
MaxRequired == 2

---------------------------------------------------------------------------
(* JavaScript values *)

\* `undefined` where a string is expected
Undefined == "#undefined"

\* !x for an optional string: undefined and "" are falsy
FalsyStr(x) == x = Undefined \/ x = ""

\* the subject identifiers a call is given
UserIds == {Undefined, "", "u1", "u2"}

\* pieces of a scope string
ScopeWords == {"admin", "staff", "appid_manage_roles", "openid"}
Whitespace == {" ", "\t"}
ScopePieces == ScopeWords \cup Whitespace
ScopeStrings == UNION {[1..n -> ScopePieces] : n \in 0..MaxScopeLen}

\* the model string of a one-word literal such as 'admin'
Lit(w) == <<w>>

\* String.prototype.split(sep) for a one-character separator
RECURSIVE Split(_, _)
Split(s, sep) ==
    IF \A i \in 1..Len(s) : s[i] # sep
    THEN <<s>>
    ELSE LET i == CHOOSE k \in 1..Len(s) :
                      s[k] = sep /\ \A j \in 1..(k - 1) : s[j] # sep
         IN  <<SubSeq(s, 1, i - 1)>> \o Split(SubSeq(s, i + 1, Len(s)), sep)

\* Array.prototype.includes
Includes(arr, x) == \E i \in 1..Len(arr) : arr[i] = x

\* the values a payload's `scope` claim can have
ScopeAbsent == [has |-> FALSE]
ScopeValues ==
    {ScopeAbsent}
    \cup {[has |-> TRUE, type |-> "string", str |-> s] : s \in ScopeStrings}
    \cup {[has |-> TRUE, type |-> "number", num |-> n] : n \in {0, 7}}
    \cup {[has |-> TRUE, type |-> "array"], [has |-> TRUE, type |-> "null"]}

\* !scopes
FalsyScope(sv) ==
    \/ ~sv.has
    \/ sv.type = "null"
    \/ sv.type = "string" /\ sv.str = <<>>
    \/ sv.type = "number" /\ sv.num = 0

\* JSON values a payload can decode to
JsonValues ==
    {[type |-> "null"], [type |-> "number"], [type |-> "string"], [type |-> "array"]}
    \cup {[type |-> "object", scope |-> sv] : sv \in ScopeValues}

\* dot-free segments of a token string
EmptySeg == [kind |-> "empty"]               \* the empty string
OpaqueSeg == [kind |-> "opaque"]             \* text that decodes to no JSON
JsonSeg(v) == [kind |-> "b64json", value |-> v]
PayloadSegs == {EmptySeg, OpaqueSeg} \cup {JsonSeg(v) : v \in JsonValues}

\* access tokens: undefined, or a string of one, two or three segments
UndefinedToken == [defined |-> FALSE, segs |-> <<>>]
TokenString(segs) == [defined |-> TRUE, segs |-> segs]
AccessTokens ==
    {UndefinedToken, TokenString(<<EmptySeg>>), TokenString(<<OpaqueSeg>>)}
    \cup {TokenString(<<OpaqueSeg, p>>) : p \in PayloadSegs}
    \cup {TokenString(<<OpaqueSeg, p, OpaqueSeg>>) : p \in PayloadSegs}

\* !accessToken: undefined or the empty string
FalsyToken(t) == ~t.defined \/ t.segs = <<EmptySeg>>

---------------------------------------------------------------------------
(* Token processor: fetchUserRoles *)

Role(id, name) == [id |-> id, name |-> name]

\* JSON.parse(Buffer.from(payload, 'base64').toString())
JsonParseBase64(seg) ==
    IF seg.kind = "b64json"
    THEN [threw |-> FALSE, value |-> seg.value]
    ELSE [threw |-> TRUE, value |-> [type |-> "null"]]

\* (mutant) one role pushed per element of scopeArray, in its order
RECURSIVE RolesOfScopeArrayPerElement(_)
RolesOfScopeArrayPerElement(scopeArray) ==
    IF scopeArray = <<>> THEN <<>>
    ELSE (IF Head(scopeArray) = Lit("admin")
            THEN <<Role("admin", "admin")>>
          ELSE IF Head(scopeArray) = Lit("staff")
            THEN <<Role("staff", "staff")>>
          ELSE IF Head(scopeArray) = Lit("appid_manage_roles")
            THEN <<Role("role_manager", "role_manager")>>
          ELSE <<>>)
         \o RolesOfScopeArrayPerElement(Tail(scopeArray))

\* the three checks of scopeArray, each pushing its role
RolesOfScopeArray(scopeArray) ==
    (IF Includes(scopeArray, Lit("admin"))
        THEN <<Role("admin", "admin")>> ELSE <<>>)
    \o (IF Includes(scopeArray, Lit("staff"))
        THEN <<Role("staff", "staff")>> ELSE <<>>)
    \o (IF Includes(scopeArray, Lit("appid_manage_roles"))
        THEN <<Role("role_manager", "role_manager")>> ELSE <<>>)

\* the body of the inner try block, given the payload segment
DecodeRoles(payload) ==
    LET parsed == JsonParseBase64(payload) IN
    IF parsed.threw
    THEN [threw |-> TRUE, roles |-> <<>>]
    ELSE LET decodedToken == parsed.value IN
         IF decodedToken.type = "null"
         THEN [threw |-> TRUE, roles |-> <<>>]      \* null.scope: TypeError
         ELSE LET scopes == IF decodedToken.type = "object"
                            THEN decodedToken.scope ELSE ScopeAbsent
              IN  IF FalsyScope(scopes)
                  THEN [threw |-> FALSE, roles |-> <<>>]
                  ELSE LET scopeArray == IF scopes.type = "string"
                                         THEN Split(scopes.str, " ")
                                         ELSE <<>>
                       IN  [threw |-> FALSE,
                            roles |-> RolesOfScopeArray(scopeArray)]

\* const [, payload] = accessToken.split('.'); if (!payload) return []
HasPayload(accessToken) ==
    Len(accessToken.segs) >= 2 /\ accessToken.segs[2] # EmptySeg

\* (mutant) no catch: what the try block threw reaches the caller
CatchNone(r) == r

\* try { ... } catch (e) { return [] }
CatchReturnEmpty(r) ==
    IF r.threw THEN [threw |-> FALSE, roles |-> <<>>] ELSE r

\* (mutant) the role ids are taken from the user id
FetchUserRolesIdFromUser(userId, accessToken) ==
    IF FalsyStr(userId) \/ FalsyToken(accessToken)
    THEN [threw |-> FALSE, roles |-> <<>>]
    ELSE IF ~HasPayload(accessToken)
    THEN [threw |-> FALSE, roles |-> <<>>]
    ELSE LET r == CatchReturnEmpty(DecodeRoles(accessToken.segs[2])) IN
         [threw |-> r.threw,
          roles |-> [i \in 1..Len(r.roles) |-> Role(userId, r.roles[i].name)]]

\* fetchUserRoles(userId, accessToken): [threw, roles]
FetchUserRoles(userId, accessToken) ==
    IF FalsyStr(userId) \/ FalsyToken(accessToken)
    THEN [threw |-> FALSE, roles |-> <<>>]
    ELSE IF ~HasPayload(accessToken)
    THEN [threw |-> FALSE, roles |-> <<>>]
    ELSE CatchReturnEmpty(DecodeRoles(accessToken.segs[2]))

---------------------------------------------------------------------------
(* Profile normalizer and session enricher: profile, callbacks.jwt,        *)
(* callbacks.session                                                       *)

\* optional arrays and booleans
NoList == [defined |-> FALSE, items |-> <<>>]
List(items) == [defined |-> TRUE, items |-> items]
NoBool == [defined |-> FALSE, value |-> FALSE]
Bool(b) == [defined |-> TRUE, value |-> b]

\* a ?? b
Coalesce(a, b) == IF a = Undefined THEN b ELSE a

\* (mutant) a ?? b in place of a || b: an empty string is kept
OrStrNullish(a, b) == IF a = Undefined THEN b ELSE a

\* a || b on optional strings
OrStr(a, b) == IF FalsyStr(a) THEN b ELSE a

\* ${x} in a template literal
TemplateStr(x) == IF x = Undefined THEN "undefined" ELSE x

\* a linked identity of the provider
Identity(provider, id) == [provider |-> provider, id |-> id]

\* the raw profiles of the provider (IBMAppIDProfile): every field optional
ProfileExtras ==
    {[email_verified |-> NoBool, roles |-> NoList, identities |-> NoList],
     [email_verified |-> Bool(TRUE),
      roles |-> List(<<Role("admin", "admin")>>),
      identities |-> List(<<Identity("cloud_directory", "i1")>>)]}
NameParts ==
    {[given_name |-> Undefined, family_name |-> Undefined],
     [given_name |-> "A", family_name |-> "B"],
     [given_name |-> "A", family_name |-> Undefined]}
Profiles ==
    {[defined |-> TRUE, sub |-> sub, name |-> name, email |-> email,
      given_name |-> n.given_name, family_name |-> n.family_name,
      email_verified |-> x.email_verified, roles |-> x.roles,
      identities |-> x.identities] :
        sub \in {Undefined, "u1"}, name \in {Undefined, "", "Ann Lee"},
        email \in {Undefined, "ann@yorku.ca"}, n \in NameParts,
        x \in ProfileExtras}
NoProfile == [defined |-> FALSE]

\* a compact token whose payload carries the given scope string
TokenWithScope(str) ==
    TokenString(<<OpaqueSeg,
                  JsonSeg([type |-> "object",
                           scope |-> [has |-> TRUE, type |-> "string",
                                      str |-> str]]),
                  OpaqueSeg>>)

\* the access tokens the provider issues to a sign-in
IssuedTokens ==
    {UndefinedToken, TokenString(<<OpaqueSeg>>),
     TokenWithScope(<<"openid">>), TokenWithScope(<<"admin">>),
     TokenWithScope(<<"staff">>), TokenWithScope(<<"admin", " ", "staff">>)}

\* the token bundles (TokenInfo / account) of a sign-in
Accounts == {[defined |-> TRUE, access_token |-> t] : t \in IssuedTokens}
NoAccount == [defined |-> FALSE]

\* user objects; an absent user is NoUser
NoUser == [defined |-> FALSE]
UserObject(id, name, email, email_verified, roles, identities) ==
    [defined |-> TRUE, id |-> id, name |-> name, email |-> email,
     email_verified |-> email_verified, roles |-> roles,
     identities |-> identities]

\* profile(profile, tokens): the provider's profile mapping
ProfileCallback(rawProfile, tokens) ==
    LET roles == FetchUserRoles(rawProfile.sub, tokens.access_token).roles IN
    [threw |-> FALSE,
     user |-> UserObject(
        rawProfile.sub,
        OrStr(rawProfile.name,
              TemplateStr(rawProfile.given_name) \o " "
                  \o TemplateStr(rawProfile.family_name)),
        rawProfile.email,
        rawProfile.email_verified,
        List(roles),
        IF rawProfile.identities.defined
            THEN rawProfile.identities ELSE List(<<>>))]

\* the durable token record before any issuance
EmptyToken == [user |-> NoUser, accessToken |-> UndefinedToken]

\* (mutant) the roles the raw profile claims are taken when it has some
WriteRecordTrustsProfile(tok, account, rawProfile, user, roles) ==
    [tok EXCEPT
        !.user = [user EXCEPT
                    !.roles = IF rawProfile.roles.defined
                              THEN rawProfile.roles ELSE List(roles),
                    !.id = rawProfile.sub,
                    !.email = Coalesce(rawProfile.email,
                                       Coalesce(user.email, Undefined)),
                    !.name = Coalesce(rawProfile.name,
                                      Coalesce(user.name, Undefined))],
        !.accessToken = account.access_token]

\* (mutant) the access token of the record is set once and then kept
WriteRecordKeepsToken(tok, account, rawProfile, user, roles) ==
    [tok EXCEPT
        !.user = [user EXCEPT
                    !.roles = List(roles),
                    !.id = rawProfile.sub,
                    !.email = Coalesce(rawProfile.email,
                                       Coalesce(user.email, Undefined)),
                    !.name = Coalesce(rawProfile.name,
                                      Coalesce(user.name, Undefined))],
        !.accessToken = IF tok.accessToken.defined THEN tok.accessToken
                        ELSE account.access_token]

\* the assignments to token.user and token.accessToken, given the roles
\* the await delivered
WriteRecord(tok, account, rawProfile, user, roles) ==
    [tok EXCEPT
        !.user = [user EXCEPT
                    !.roles = List(roles),
                    !.id = rawProfile.sub,
                    !.email = Coalesce(rawProfile.email,
                                       Coalesce(user.email, Undefined)),
                    !.name = Coalesce(rawProfile.name,
                                      Coalesce(user.name, Undefined))],
        !.accessToken = account.access_token]

\* the body of `if (account && profile)`: token.user and token.accessToken
\* are assigned
IssueRecord(tok, account, rawProfile, user) ==
    WriteRecord(tok, account, rawProfile, user,
                FetchUserRoles(rawProfile.sub, account.access_token).roles)

\* (mutant) the roles of the record are patched: the new ones are added to
\* those the record already holds
JwtCallbackPatchesRoles(tok, account, rawProfile, user) ==
    IF account.defined /\ rawProfile.defined
    THEN LET issued == IssueRecord(tok, account, rawProfile, user)
             old == IF tok.user.defined THEN tok.user.roles.items ELSE <<>>
         IN  [issued EXCEPT
                !.user.roles = List(old \o issued.user.roles.items)]
    ELSE tok

\* (mutant) the access token is taken from the account even when no
\* profile comes with it
JwtCallbackOnAccountAlone(tok, account, rawProfile, user) ==
    IF account.defined /\ rawProfile.defined
    THEN IssueRecord(tok, account, rawProfile, user)
    ELSE IF account.defined
    THEN [tok EXCEPT !.accessToken = account.access_token]
    ELSE tok

\* callbacks.jwt({ token, account, profile, user }): the token it returns
JwtCallback(tok, account, rawProfile, user) ==
    IF account.defined /\ rawProfile.defined
    THEN IssueRecord(tok, account, rawProfile, user)
    ELSE tok

\* session objects; an absent session (null) is NoSession
NoSession == [defined |-> FALSE]
SessionObject(user, accessToken) ==
    [defined |-> TRUE, user |-> user, accessToken |-> accessToken]

\* the session objects the framework hands to the session callback: a user
\* built from the token's standard name and email claims, no access token
IncomingSessions ==
    {SessionObject(UserObject(Undefined, name, email, NoBool, NoList, NoList),
                   UndefinedToken) :
        name \in {Undefined, "Ann Lee"}, email \in {Undefined, "ann@yorku.ca"}}

\* (mutant) the token's user is merged into the user of the incoming
\* session, whose name and email fill those the token's user lacks
SessionCallbackMerges(sess, tok) ==
    [sess EXCEPT
        !.user = IF tok.user.defined
                 THEN [tok.user EXCEPT
                         !.name = Coalesce(tok.user.name, sess.user.name),
                         !.email = Coalesce(tok.user.email, sess.user.email)]
                 ELSE @,
        !.accessToken = tok.accessToken]

\* (mutant) the access token is not copied into the session
SessionCallbackUserOnly(sess, tok) ==
    [sess EXCEPT !.user = IF tok.user.defined THEN tok.user ELSE @]

\* callbacks.session({ session, token }): the session it returns
SessionCallback(sess, tok) ==
    [sess EXCEPT
        !.user = IF tok.user.defined THEN tok.user ELSE @,
        !.accessToken = tok.accessToken]

---------------------------------------------------------------------------
(* Route guard: withAuth, and the pages' getServerSideProps loaders *)

\* sequences over S of length at most n
SeqUpTo(S, n) == UNION {[1..k -> S] : k \in 0..n}

\* the role objects a session may carry: those fetchUserRoles builds
GuardRoles == {Role("admin", "admin"), Role("staff", "staff"),
               Role("role_manager", "role_manager")}

\* the sessions getSession can resolve for a request, null included
GuardSessions ==
    {NoSession,
     SessionObject(NoUser, UndefinedToken),
     SessionObject(UserObject("u1", "Ann Lee", "ann@yorku.ca", NoBool, NoList,
                              NoList),
                   TokenWithScope(<<"openid">>))}
    \cup {SessionObject(UserObject("u1", "Ann Lee", "ann@yorku.ca", NoBool,
                                   List(rs), NoList), t) :
            rs \in SeqUpTo(GuardRoles, MaxRoles),
            t \in {UndefinedToken, TokenWithScope(<<"openid">>)}}

\* request contexts, each with what the session lookup does for it: it
\* resolves to the session (or to null), or it rejects
Contexts ==
    {[id |-> i, session |-> ss, lookup |-> "resolves"] :
        i \in {1, 2}, ss \in GuardSessions}
    \cup {[id |-> i, session |-> NoSession, lookup |-> "rejects"] :
            i \in {1, 2}}

\* the requiredRoles argument: omitted, or a list of role names
RoleNames == {"admin", "staff"}
RequiredRolesArgs ==
    {NoList} \cup {List(rs) : rs \in SeqUpTo(RoleNames, MaxRequired)}

\* results of a page-data loader
Redirect(destination) ==
    [kind |-> "redirect", destination |-> destination, permanent |-> FALSE]
Props(page, data) == [kind |-> "props", page |-> page, data |-> data]
NotFound == [kind |-> "notFound"]

\* the loaders a page may hand to withAuth, and what each returns
Loaders == {"propsLoader", "redirectLoader", "notFoundLoader"}
Gssp(gssp, context) ==
    CASE gssp = "propsLoader" -> Props("page", context.id)
      [] gssp = "redirectLoader" -> Redirect("/")
      [] OTHER -> NotFound

\* getSession(context)
GetSession(context) == context.session

\* await getSession(context) raises
GetSessionThrows(context) == context.lookup = "rejects"

\* a handler that raised: the promise it returned is rejected
Exception == [kind |-> "exception"]

\* session.user?.roles?.map(role => role.name) || []
UserRoleNames(sess) ==
    IF sess.user.defined /\ sess.user.roles.defined
    THEN [i \in 1..Len(sess.user.roles.items) |-> sess.user.roles.items[i].name]
    ELSE <<>>

\* (mutant) only the first of the user's roles is looked at
HasRequiredRoleFirst(requiredRoles, userRoles) ==
    /\ userRoles # <<>>
    /\ \E i \in 1..Len(requiredRoles) : userRoles[1] = requiredRoles[i]

\* requiredRoles.some(role => userRoles.includes(role))
HasRequiredRole(requiredRoles, userRoles) ==
    \E i \in 1..Len(requiredRoles) : Includes(userRoles, requiredRoles[i])

\* what a handler did: its result, the contexts the wrapped loader was
\* invoked with, and whether a data-loading body ran
Outcome(result, calls, bodyRan) ==
    [result |-> result, calls |-> calls, bodyRan |-> bodyRan]

\* (mutant) the role check made before the session check
WithAuthRolesFirst(gssp, requiredRoles, context) ==
    LET sess == GetSession(context)
        userRoles == IF sess.defined THEN UserRoleNames(sess) ELSE <<>>
    IN
    IF /\ requiredRoles.defined
       /\ Len(requiredRoles.items) > 0
       /\ ~HasRequiredRole(requiredRoles.items, userRoles)
    THEN Outcome(Redirect("/unauthorized"), <<>>, FALSE)
    ELSE IF ~sess.defined
    THEN Outcome(Redirect("/api/auth/signin"), <<>>, FALSE)
    ELSE Outcome(Gssp(gssp, context), <<context>>, TRUE)

\* (mutant) the role check skipped when the session carries no roles list
WithAuthSkipsWithoutRoles(gssp, requiredRoles, context) ==
    LET sess == GetSession(context) IN
    IF ~sess.defined
    THEN Outcome(Redirect("/api/auth/signin"), <<>>, FALSE)
    ELSE IF /\ requiredRoles.defined
            /\ Len(requiredRoles.items) > 0
            /\ sess.user.defined /\ sess.user.roles.defined
            /\ ~HasRequiredRole(requiredRoles.items, UserRoleNames(sess))
    THEN Outcome(Redirect("/unauthorized"), <<>>, FALSE)
    ELSE Outcome(Gssp(gssp, context), <<context>>, TRUE)

\* (mutant) every required role demanded instead of some
WithAuthEvery(gssp, requiredRoles, context) ==
    LET sess == GetSession(context) IN
    IF ~sess.defined
    THEN Outcome(Redirect("/api/auth/signin"), <<>>, FALSE)
    ELSE IF /\ requiredRoles.defined
            /\ Len(requiredRoles.items) > 0
            /\ \E i \in 1..Len(requiredRoles.items) :
                  ~Includes(UserRoleNames(sess), requiredRoles.items[i])
    THEN Outcome(Redirect("/unauthorized"), <<>>, FALSE)
    ELSE Outcome(Gssp(gssp, context), <<context>>, TRUE)

\* (mutant) the sign-in redirect carries the request it came from
WithAuthCallbackUrl(gssp, requiredRoles, context) ==
    LET sess == GetSession(context) IN
    IF ~sess.defined
    THEN Outcome(Redirect("/api/auth/signin?callbackUrl=/"
                              \o ToString(context.id)), <<>>, FALSE)
    ELSE IF /\ requiredRoles.defined
            /\ Len(requiredRoles.items) > 0
            /\ ~HasRequiredRole(requiredRoles.items, UserRoleNames(sess))
    THEN Outcome(Redirect("/unauthorized"), <<>>, FALSE)
    ELSE Outcome(Gssp(gssp, context), <<context>>, TRUE)

\* the checks withAuth makes before it calls the wrapped loader: either
\* they end the request, or they pass and the wrapped loader is called
Passes == [passed |-> TRUE]
Ends(outcome) == [passed |-> FALSE, outcome |-> outcome]
WithAuthChecks(requiredRoles, context) ==
    LET sess == GetSession(context) IN
    IF GetSessionThrows(context)
    THEN Ends(Outcome(Exception, <<>>, FALSE))
    ELSE IF ~sess.defined
    THEN Ends(Outcome(Redirect("/api/auth/signin"), <<>>, FALSE))
    ELSE IF /\ requiredRoles.defined
            /\ Len(requiredRoles.items) > 0
            /\ ~HasRequiredRole(requiredRoles.items, UserRoleNames(sess))
    THEN Ends(Outcome(Redirect("/unauthorized"), <<>>, FALSE))
    ELSE Passes

\* withAuth(gssp, requiredRoles)(context)
WithAuth(gssp, requiredRoles, context) ==
    LET checks == WithAuthChecks(requiredRoles, context) IN
    IF checks.passed
    THEN Outcome(Gssp(gssp, context), <<context>>, TRUE)
    ELSE checks.outcome

\* (mutant) the second wrapping replaces the first
WithAuthTwiceOuterOnly(gssp, innerRoles, outerRoles, context) ==
    WithAuth(gssp, outerRoles, context)

\* withAuth(withAuth(gssp, innerRoles), outerRoles)(context): the wrapped
\* loader of the outer guard is the inner guard
WithAuthTwice(gssp, innerRoles, outerRoles, context) ==
    LET checks == WithAuthChecks(outerRoles, context) IN
    IF checks.passed
    THEN WithAuth(gssp, innerRoles, context)
    ELSE checks.outcome

\* getServerSideProps of the protected page
ProtectedGssp(context) ==
    LET sess == GetSession(context) IN
    IF GetSessionThrows(context)
    THEN Outcome(Exception, <<>>, FALSE)
    ELSE IF ~sess.defined
    THEN Outcome(Redirect("/api/auth/signin"), <<>>, FALSE)
    ELSE Outcome(Props("protected", sess.user), <<>>, TRUE)

\* getServerSideProps of the user-info page; the user-info request to the
\* provider succeeds or fails
UserInfoGssp(context, fetchOk) ==
    LET sess == GetSession(context) IN
    IF GetSessionThrows(context)
    THEN Outcome(Props("userinfo", "error"), <<>>, FALSE)
    ELSE IF ~sess.defined \/ FalsyToken(sess.accessToken)
    THEN Outcome(Redirect("/api/auth/signin"), <<>>, FALSE)
    ELSE IF fetchOk
    THEN Outcome(Props("userinfo", "userInfo"), <<>>, TRUE)
    ELSE Outcome(Props("userinfo", "error"), <<>>, TRUE)

\* getServerSideProps of the OIDC-details page; the discovery request to
\* the provider succeeds or fails
OIDCDetailsGssp(context, fetchOk) ==
    IF fetchOk
    THEN Outcome(Props("oidc-details", "oidcConfig"), <<>>, TRUE)
    ELSE Outcome(Props("oidc-details", "error"), <<>>, TRUE)

---------------------------------------------------------------------------
(* Client pages: the role checks of Layout and the admin pages *)

\* the truth value JavaScript gives an optional boolean in a condition
ToBoolean(b) == b.defined /\ b.value

\* (mutant) every in place of some
HasRoleEvery(sess, roleName) ==
    IF sess.defined /\ sess.user.defined /\ sess.user.roles.defined
    THEN Bool(\A i \in 1..Len(sess.user.roles.items) :
                 sess.user.roles.items[i].name = roleName)
    ELSE NoBool

\* session?.user?.roles?.some(role => role.name === roleName): a boolean,
\* or undefined when the session, its user or the roles list is absent
HasRole(sess, roleName) ==
    IF sess.defined /\ sess.user.defined /\ sess.user.roles.defined
    THEN Bool(\E i \in 1..Len(sess.user.roles.items) :
                 sess.user.roles.items[i].name = roleName)
    ELSE NoBool

\* what Layout computes and shows: isAdmin and isStaff, the navigation of a
\* signed-in user, and the Admin and Staff entries in it
NoLayout ==
    [rendered |-> FALSE, isAdmin |-> NoBool, isStaff |-> NoBool,
     nav |-> FALSE, adminMenu |-> FALSE, staffLink |-> FALSE]
Layout(sess) ==
    LET isAdmin == HasRole(sess, "admin")
        isStaff == HasRole(sess, "staff")
    IN  [rendered |-> TRUE, isAdmin |-> isAdmin, isStaff |-> isStaff,
         nav |-> sess.defined,
         adminMenu |-> sess.defined /\ ToBoolean(isAdmin),
         staffLink |-> sess.defined /\ ToBoolean(isStaff)]

\* the pages that are meant for administrators: AdminDashboard,
\* UserManagementPage and RoleManagementPage
AdminPages == {"/admin", "/admin/users", "/admin/roles"}

\* what useSession can give a page: the status and the session data
SessionStatuses ==
    {[status |-> "loading", data |-> NoSession],
     [status |-> "unauthenticated", data |-> NoSession]}
    \cup {[status |-> "authenticated", data |-> ss] :
            ss \in GuardSessions \ {NoSession}}

\* what a render of a page returns, with what Layout computed in it
View(kind, layout) == [kind |-> kind, layout |-> layout]

\* the function body of an admin page: the spinner while loading, nothing
\* without a session, the page content otherwise
AdminPageRender(status, sess) ==
    IF status = "loading" THEN View("spinner", Layout(sess))
    ELSE IF ~sess.defined THEN View("null", NoLayout)
    ELSE View("content", Layout(sess))

\* the useEffect of an admin page: the route it pushes, if any
NoPush == "none"
AdminPageEffect(status, sess) ==
    IF status = "loading" THEN NoPush
    ELSE IF ~sess.defined THEN "/unauthorized"
    ELSE IF ~ToBoolean(HasRole(sess, "admin")) THEN "/unauthorized"
    ELSE NoPush

\* (mutant) the staff page tests the session alone before its content
StaffPageRenderSessionOnly(status, sess) ==
    IF status = "loading" THEN View("spinner", NoLayout)
    ELSE IF ~sess.defined THEN View("null", NoLayout)
    ELSE View("content", NoLayout)

\* the function body of StaffPage: the spinner while loading, nothing
\* unless the session holds the staff role, the dashboard otherwise; the
\* page does not use Layout
StaffPageRender(status, sess) ==
    IF status = "loading" THEN View("spinner", NoLayout)
    ELSE IF ~ToBoolean(HasRole(sess, "staff")) THEN View("null", NoLayout)
    ELSE View("content", NoLayout)

\* the useEffect of StaffPage
StaffPageEffect(status, sess) ==
    IF status = "loading" THEN NoPush
    ELSE IF ~sess.defined \/ ~ToBoolean(HasRole(sess, "staff"))
    THEN "/unauthorized"
    ELSE NoPush

\* the pages that any signed-in user may open: DashboardPage,
\* SettingsPage, ActivityLogPage and ProfilePage
SignedInPages == {"/dashboard", "/settings", "/activity-log", "/profile"}

\* the pages whose content reads session.user.roles and session.user.name
\* without testing session.user
ReadsUser == {"/dashboard", "/profile"}

\* the function body of such a page: the spinner while loading, nothing
\* without a session, the page content otherwise; the content of two of
\* them raises a TypeError on a session without a user
SignedInPageRender(page, status, sess) ==
    IF status = "loading" THEN View("spinner", Layout(sess))
    ELSE IF ~sess.defined THEN View("null", NoLayout)
    ELSE IF page \in ReadsUser /\ ~sess.user.defined
    THEN View("error", NoLayout)
    ELSE View("content", Layout(sess))

\* (mutant) the effect does not wait for the status to leave loading
SignedInPageEffectWhileLoading(status, sess) ==
    IF ~sess.defined THEN "/unauthorized" ELSE NoPush

\* the useEffect of such a page
SignedInPageEffect(status, sess) ==
    IF status = "loading" THEN NoPush
    ELSE IF ~sess.defined THEN "/unauthorized"
    ELSE NoPush

\* the pages of the application that guard themselves in the browser
ClientPages == AdminPages \cup {"/staff"} \cup SignedInPages

\* the function body and the effect of the page that is mounted
PageRender(page, status, sess) ==
    IF page \in AdminPages THEN AdminPageRender(status, sess)
    ELSE IF page = "/staff" THEN StaffPageRender(status, sess)
    ELSE SignedInPageRender(page, status, sess)
PageEffect(page, status, sess) ==
    IF page \in AdminPages THEN AdminPageEffect(status, sess)
    ELSE IF page = "/staff" THEN StaffPageEffect(status, sess)
    ELSE SignedInPageEffect(status, sess)

---------------------------------------------------------------------------
(* Two requests in flight: the steps of callbacks.jwt and callbacks.session *)

Requests == {1, 2}

\* the two users that sign in
RequestProfiles ==
    {[defined |-> TRUE, sub |-> "u1", name |-> "Ann Lee",
      email |-> "ann@yorku.ca", given_name |-> "Ann", family_name |-> "Lee",
      email_verified |-> Bool(TRUE), roles |-> NoList, identities |-> NoList],
     [defined |-> TRUE, sub |-> "u2", name |-> Undefined,
      email |-> Undefined, given_name |-> "A", family_name |-> "B",
      email_verified |-> NoBool, roles |-> NoList, identities |-> NoList]}
RequestTokens ==
    {TokenWithScope(<<"admin">>), TokenWithScope(<<"staff">>)}

\* what a request brings to the callbacks: a sign-in brings the account
\* and the profile, a later request the durable record of an earlier one
SignIns ==
    {[token |-> EmptyToken,
      account |-> [defined |-> TRUE, access_token |-> t],
      profile |-> pr,
      user |-> ProfileCallback(pr, [access_token |-> t]).user,
      session |-> ss] :
        t \in RequestTokens, pr \in RequestProfiles, ss \in IncomingSessions}
LaterRequests ==
    {[token |-> JwtCallback(i.token, i.account, i.profile, i.user),
      account |-> NoAccount, profile |-> NoProfile, user |-> NoUser,
      session |-> i.session] : i \in SignIns}
RequestInputs == SignIns \cup LaterRequests

\* (mutant) `roles` kept in one variable of the module
RolesSlotShared(r) == 1

\* `const roles`: a local of the invocation
RolesSlot(r) == r

---------------------------------------------------------------------------
(* Specification of the token processor called on its own *)

NotCalled == [called |-> FALSE, threw |-> FALSE, roles |-> <<>>]
Called(r) == [called |-> TRUE, threw |-> r.threw, roles |-> r.roles]

\* nothing of the token processor has run
IdleRoles ==
    /\ fAccessToken = UndefinedToken
    /\ fUserId = Undefined
    /\ fResult = NotCalled
    /\ fUserId2 = Undefined
    /\ fResult2 = NotCalled

NoJwtArgs == [account |-> NoAccount, profile |-> NoProfile, user |-> NoUser,
              threw |-> FALSE]

\* no token was issued and no session read
IdleSession ==
    /\ token = EmptyToken
    /\ session = NoSession
    /\ lastOp = "none"
    /\ jwtArgs = NoJwtArgs
    /\ sessionArg = NoSession
    /\ prevSession = NoSession

NoOutcome == [handler |-> "none"]
Handled(handler, out) ==
    [handler |-> handler, result |-> out.result, calls |-> out.calls,
     bodyRan |-> out.bodyRan]

\* no request is being handled
IdleGuard ==
    /\ gContext = [id |-> 1, session |-> NoSession, lookup |-> "resolves"]
    /\ gRequiredRoles = NoList
    /\ gLoader = "propsLoader"
    /\ gOut = NoOutcome

\* no page is mounted
IdleClient ==
    /\ cPage = "none"
    /\ cStatus = "loading"
    /\ cSession = NoSession
    /\ cView = "none"
    /\ cLayout = NoLayout
    /\ cNav = NoPush
    /\ cPc = "idle"

\* no requests are in flight
IdleRequests ==
    /\ rqInput = <<>>
    /\ rqPc = <<>>
    /\ rqToken = <<>>
    /\ rqRoles = <<>>
    /\ rqSession = <<>>

InitRoles ==
    /\ fAccessToken \in AccessTokens
    /\ fUserId \in UserIds
    /\ fResult = NotCalled
    /\ fUserId2 = Undefined
    /\ fResult2 = NotCalled
    /\ IdleSession
    /\ IdleGuard
    /\ IdleClient
    /\ IdleRequests

\* the call of fetchUserRoles on the given arguments
FetchRoles ==
    /\ ~fResult.called
    /\ fResult' = Called(FetchUserRoles(fUserId, fAccessToken))
    /\ UNCHANGED <<fAccessToken, fUserId, fUserId2, fResult2>>
    /\ UNCHANGED <<varsSession, varsGuard, varsClient, varsRequests>>

\* a further call with the same token string and any user id
FetchRolesAgain ==
    /\ fResult.called
    /\ ~fResult2.called
    /\ \E userId \in UserIds :
        /\ fUserId2' = userId
        /\ fResult2' = Called(FetchUserRoles(userId, fAccessToken))
    /\ UNCHANGED <<fAccessToken, fUserId, fResult>>
    /\ UNCHANGED <<varsSession, varsGuard, varsClient, varsRequests>>

NextRoles == FetchRoles \/ FetchRolesAgain

SpecRoles == InitRoles /\ [][NextRoles]_vars

---------------------------------------------------------------------------
(* Specification of the session enricher: the state machine of the durable *)
(* token record and the session view                                       *)

Init ==
    /\ IdleRoles
    /\ IdleSession
    /\ IdleGuard
    /\ IdleClient
    /\ IdleRequests

\* Stage A on token issuance: the sign-in hands the provider's raw profile
\* and token bundle to profile(), and its result with them to callbacks.jwt
JwtIssue ==
    \E rawProfile \in Profiles, account \in Accounts :
        LET mapped == ProfileCallback(rawProfile, account) IN
        /\ token' = JwtCallback(token, account, rawProfile, mapped.user)
        /\ jwtArgs' = [account |-> account, profile |-> rawProfile,
                       user |-> mapped.user, threw |-> mapped.threw]
        /\ lastOp' = "jwtIssue"
        /\ session' = NoSession       \* no view of the new record yet
        /\ sessionArg' = NoSession
        /\ prevSession' = NoSession
        /\ UNCHANGED <<varsRoles, varsGuard, varsClient, varsRequests>>

\* Stage A on a later request: callbacks.jwt given the token without both
\* an account and a profile
JwtPass ==
    \E account \in {NoAccount} \cup Accounts,
       rawProfile \in {NoProfile} \cup Profiles :
        /\ ~(account.defined /\ rawProfile.defined)
        /\ token' = JwtCallback(token, account, rawProfile, NoUser)
        /\ lastOp' = "jwtPass"
        /\ UNCHANGED <<session, jwtArgs, sessionArg, prevSession>>
        /\ UNCHANGED <<varsRoles, varsGuard, varsClient, varsRequests>>

\* Stage B: callbacks.session on a session read
SessionRead ==
    \E sess \in IncomingSessions :
        /\ session' = SessionCallback(sess, token)
        /\ sessionArg' = sess
        /\ prevSession' = session
        /\ lastOp' = "session"
        /\ UNCHANGED <<token, jwtArgs>>
        /\ UNCHANGED <<varsRoles, varsGuard, varsClient, varsRequests>>

Next == JwtIssue \/ JwtPass \/ SessionRead

Spec == Init /\ [][Next]_vars

---------------------------------------------------------------------------
(* Specification of the route guard and the page-data loaders: one request *)
(* handled by one of the handlers                                          *)

InitGuard ==
    /\ gContext \in Contexts
    /\ gRequiredRoles \in RequiredRolesArgs
    /\ gLoader \in Loaders
    /\ gOut = NoOutcome
    /\ IdleRoles
    /\ IdleSession
    /\ IdleClient
    /\ IdleRequests

\* the request reaches a loader wrapped by withAuth
GuardedRequest ==
    /\ gOut = NoOutcome
    /\ gOut' = Handled("withAuth", WithAuth(gLoader, gRequiredRoles, gContext))
    /\ UNCHANGED <<gContext, gRequiredRoles, gLoader>>
    /\ UNCHANGED <<varsRoles, varsSession, varsClient, varsRequests>>

\* the request reaches a loader wrapped by withAuth twice
TwiceGuardedRequest ==
    /\ gOut = NoOutcome
    /\ \E innerRoles \in RequiredRolesArgs :
        gOut' = [inner |-> innerRoles] @@
                Handled("withAuth twice",
                        WithAuthTwice(gLoader, innerRoles, gRequiredRoles,
                                      gContext))
    /\ UNCHANGED <<gContext, gRequiredRoles, gLoader>>
    /\ UNCHANGED <<varsRoles, varsSession, varsClient, varsRequests>>

\* the request reaches the protected page
ProtectedRequest ==
    /\ gOut = NoOutcome
    /\ gOut' = Handled("protected", ProtectedGssp(gContext))
    /\ UNCHANGED <<gContext, gRequiredRoles, gLoader>>
    /\ UNCHANGED <<varsRoles, varsSession, varsClient, varsRequests>>

\* the request reaches the user-info page
UserInfoRequest ==
    /\ gOut = NoOutcome
    /\ \E fetchOk \in BOOLEAN :
        gOut' = Handled("userinfo", UserInfoGssp(gContext, fetchOk))
    /\ UNCHANGED <<gContext, gRequiredRoles, gLoader>>
    /\ UNCHANGED <<varsRoles, varsSession, varsClient, varsRequests>>

\* the request reaches the OIDC-details page
OIDCDetailsRequest ==
    /\ gOut = NoOutcome
    /\ \E fetchOk \in BOOLEAN :
        gOut' = Handled("oidc-details", OIDCDetailsGssp(gContext, fetchOk))
    /\ UNCHANGED <<gContext, gRequiredRoles, gLoader>>
    /\ UNCHANGED <<varsRoles, varsSession, varsClient, varsRequests>>

NextGuard ==
    GuardedRequest \/ TwiceGuardedRequest \/ ProtectedRequest \/ UserInfoRequest \/ OIDCDetailsRequest

SpecGuard == InitGuard /\ [][NextGuard]_vars

---------------------------------------------------------------------------
(* Specification of the client pages: one page mounted under the           *)
(* session provider; React renders it, runs its effect, and renders it     *)
(* again when the session status changes                                   *)

InitClient ==
    /\ cPage \in ClientPages
    /\ \E u \in SessionStatuses :
        /\ cStatus = u.status
        /\ cSession = u.data
    /\ cView = "none"
    /\ cLayout = NoLayout
    /\ cNav = NoPush
    /\ cPc = "render"
    /\ IdleRoles
    /\ IdleSession
    /\ IdleGuard
    /\ IdleRequests

\* React calls the page's function body
ClientRender ==
    /\ cPc = "render"
    /\ LET view == PageRender(cPage, cStatus, cSession) IN
        /\ cView' = view.kind
        /\ cLayout' = view.layout
        \* a render that raised is not committed: its effect does not run
        /\ cPc' = IF view.kind = "error" THEN "idle" ELSE "effect"
    /\ UNCHANGED <<cPage, cStatus, cSession, cNav>>
    /\ UNCHANGED <<varsRoles, varsSession, varsGuard, varsRequests>>

\* React runs the page's effect after the render
ClientEffect ==
    /\ cPc = "effect"
    /\ LET destination == PageEffect(cPage, cStatus, cSession) IN
        cNav' = IF destination = NoPush THEN cNav ELSE destination
    /\ cPc' = "idle"
    /\ UNCHANGED <<cPage, cStatus, cSession, cView, cLayout>>
    /\ UNCHANGED <<varsRoles, varsSession, varsGuard, varsRequests>>

\* the session fetch completes: the status leaves loading
SessionResolves ==
    /\ cPc = "idle"
    /\ cStatus = "loading"
    /\ \E u \in SessionStatuses :
        /\ u.status # "loading"
        /\ cStatus' = u.status
        /\ cSession' = u.data
    /\ cPc' = "render"
    /\ UNCHANGED <<cPage, cView, cLayout, cNav>>
    /\ UNCHANGED <<varsRoles, varsSession, varsGuard, varsRequests>>

NextClient == ClientRender \/ ClientEffect \/ SessionResolves

SpecClient == InitClient /\ [][NextClient]_vars

\* React does call the function body of a mounted page and does run the
\* effect of a committed render
SpecClientFair ==
    SpecClient /\ WF_vars(ClientRender) /\ WF_vars(ClientEffect)

---------------------------------------------------------------------------
(* Specification of two requests in flight: each runs callbacks.jwt, which *)
(* yields at its await, and then callbacks.session; the steps interleave   *)

InitRequests ==
    /\ rqInput \in [Requests -> RequestInputs]
    /\ rqInput[1] # rqInput[2]
    /\ rqPc = [r \in Requests |-> "jwt"]
    /\ rqToken = [r \in Requests |-> rqInput[r].token]
    /\ rqRoles = [r \in Requests |-> <<>>]
    /\ rqSession = [r \in Requests |-> rqInput[r].session]
    /\ IdleRoles
    /\ IdleSession
    /\ IdleGuard
    /\ IdleClient

\* callbacks.jwt up to its await: the roles are fetched into `roles`, or
\* the token is returned as it is
JwtBegin(r) ==
    /\ rqPc[r] = "jwt"
    /\ IF rqInput[r].account.defined /\ rqInput[r].profile.defined
       THEN /\ rqRoles' = [rqRoles EXCEPT ![RolesSlot(r)] =
                    FetchUserRoles(rqInput[r].profile.sub,
                                   rqInput[r].account.access_token).roles]
            /\ rqPc' = [rqPc EXCEPT ![r] = "await"]
       ELSE /\ rqPc' = [rqPc EXCEPT ![r] = "session"]
            /\ UNCHANGED rqRoles
    /\ UNCHANGED <<rqInput, rqToken, rqSession>>
    /\ UNCHANGED <<varsRoles, varsSession, varsGuard, varsClient>>

\* callbacks.jwt after its await: token.user and token.accessToken are
\* assigned and the token returned
JwtResume(r) ==
    /\ rqPc[r] = "await"
    /\ rqToken' = [rqToken EXCEPT ![r] =
            WriteRecord(rqToken[r], rqInput[r].account, rqInput[r].profile,
                        rqInput[r].user, rqRoles[RolesSlot(r)])]
    /\ rqPc' = [rqPc EXCEPT ![r] = "session"]
    /\ UNCHANGED <<rqInput, rqRoles, rqSession>>
    /\ UNCHANGED <<varsRoles, varsSession, varsGuard, varsClient>>

\* callbacks.session on the token callbacks.jwt returned
SessionStep(r) ==
    /\ rqPc[r] = "session"
    /\ rqSession' = [rqSession EXCEPT ![r] =
            SessionCallback(rqSession[r], rqToken[r])]
    /\ rqPc' = [rqPc EXCEPT ![r] = "done"]
    /\ UNCHANGED <<rqInput, rqToken, rqRoles>>
    /\ UNCHANGED <<varsRoles, varsSession, varsGuard, varsClient>>

NextRequests ==
    \E r \in Requests : JwtBegin(r) \/ JwtResume(r) \/ SessionStep(r)

SpecRequests == InitRequests /\ [][NextRequests]_vars

---------------------------------------------------------------------------
(* Claims about the token processor, checked under SpecRoles *)

\* the role table of the claims: scope -> role
RoleTableKeys == {"admin", "staff", "appid_manage_roles"}
RoleTable(k) ==
    IF k = "appid_manage_roles" THEN Role("role_manager", "role_manager")
    ELSE Role(k, k)

\* the space-delimited tokens of a scope string: its maximal space-free runs
SpaceTokens(s) ==
    {SubSeq(s, i, j) : <<i, j>> \in
        {p \in (1..(Len(s) + 1)) \X (0..Len(s)) :
            /\ p[1] <= p[2] + 1
            /\ \A k \in p[1]..p[2] : s[k] # " "
            /\ (p[1] = 1 \/ s[p[1] - 1] = " ")
            /\ (p[2] = Len(s) \/ s[p[2] + 1] = " ")}}

\* the roles the table gives for a scope string
TableImage(s) == {RoleTable(k) : k \in {w \in RoleTableKeys : <<w>> \in SpaceTokens(s)}}

Range(seq) == {seq[i] : i \in 1..Len(seq)}

\* a compact three-part token whose payload is a record with a string scope
WellFormedWithStringScope(t) ==
    /\ t.defined
    /\ Len(t.segs) = 3
    /\ t.segs[2].kind = "b64json"
    /\ t.segs[2].value.type = "object"
    /\ t.segs[2].value.scope.has
    /\ t.segs[2].value.scope.type = "string"

ScopeStringOf(t) == t.segs[2].value.scope.str

\* the returned list is exactly the table's image, each role once
ReturnsTableImage(result, t) ==
    /\ ~result.threw
    /\ Range(result.roles) = TableImage(ScopeStringOf(t))
    /\ Len(result.roles) = Cardinality(Range(result.roles))

NoUsableScope(t) ==
    /\ t.defined
    /\ \/ Len(t.segs) < 2
       \/ t.segs[2].kind # "b64json"
       \/ t.segs[2].value.type # "object"
       \/ ~t.segs[2].value.scope.has

\* C6: for every token string whose payload cannot be decoded, is not a
\* record or has no scope claim, fetchUserRoles returns the empty list and
\* raises nothing.
C6_SoftFailure ==
    (fResult.called /\ NoUsableScope(fAccessToken))
        => (fResult.roles = <<>> /\ ~fResult.threw)

\* a call with a user id on a token whose payload decodes to JSON null,
\* where reading the scope claim throws inside the try block
C6_Witness ==
    /\ fResult.called
    /\ ~FalsyStr(fUserId)
    /\ Len(fAccessToken.segs) = 3
    /\ fAccessToken.segs[2] = JsonSeg([type |-> "null"])
    /\ fResult.roles = <<>>

---------------------------------------------------------------------------
(* Claims about the route guard, checked under SpecGuard *)

\* the set of role names of a session, empty when the roles list is absent
RoleNameSet(sess) ==
    IF sess.user.defined /\ sess.user.roles.defined
    THEN {sess.user.roles.items[i].name : i \in 1..Len(sess.user.roles.items)}
    ELSE {}

\* the request was handled by a loader wrapped by withAuth
Guarded == gOut.handler = "withAuth"

\* C1: when no session resolves, the guarded loader returns the redirect to
\* the sign-in entry point and never invokes the wrapped loader, whether
\* requiredRoles is omitted, empty or non-empty.
C1_NoSessionRedirectsToSignIn ==
    (Guarded /\ ~GetSessionThrows(gContext) /\ ~gContext.session.defined)
        => /\ gOut.result = Redirect("/api/auth/signin")
           /\ gOut.calls = <<>>

\* a request without session guarded with requiredRoles ["admin"]
C1_Witness ==
    /\ Guarded
    /\ ~GetSessionThrows(gContext)
    /\ ~gContext.session.defined
    /\ gRequiredRoles = List(<<"admin">>)
    /\ gOut.result.kind = "redirect"

\* C2: for a present session and a non-empty requiredRoles, when no role
\* name of the session is a required one the guarded loader returns the
\* redirect to the unauthorized destination and never invokes the loader.
C2_NoCommonRoleRedirectsToUnauthorized ==
    (/\ Guarded
     /\ gContext.session.defined
     /\ gRequiredRoles.defined /\ gRequiredRoles.items # <<>>
     /\ RoleNameSet(gContext.session) \cap Range(gRequiredRoles.items) = {})
        => /\ gOut.result = Redirect("/unauthorized")
           /\ gOut.calls = <<>>

\* a session holding staff, guarded with requiredRoles ["admin"]
C2_Witness ==
    /\ Guarded
    /\ gContext.session.defined
    /\ RoleNameSet(gContext.session) = {"staff"}
    /\ gRequiredRoles = List(<<"admin">>)
    /\ gOut.result.kind = "redirect"

\* C3: for a present session, when requiredRoles is omitted or empty, or a
\* required role is the name of one of the session's roles, the guarded
\* loader invokes the wrapped loader exactly once, with the same request
\* context, and returns its result unchanged.
C3_AdmittedRequestDelegates ==
    (/\ Guarded
     /\ gContext.session.defined
     /\ \/ ~gRequiredRoles.defined
        \/ gRequiredRoles.items = <<>>
        \/ RoleNameSet(gContext.session) \cap Range(gRequiredRoles.items) # {})
        => /\ gOut.calls = <<gContext>>
           /\ gOut.result = Gssp(gLoader, gContext)

\* a session holding staff, guarded with requiredRoles ["admin", "staff"]
C3_Witness ==
    /\ Guarded
    /\ gContext.session.defined
    /\ RoleNameSet(gContext.session) = {"staff"}
    /\ gRequiredRoles = List(<<"admin", "staff">>)
    /\ gLoader = "propsLoader"
    /\ gOut.result = Props("page", gContext.id)

\* C4: no server-side page-data loader of the repository (protected page,
\* user-info page, OIDC-details page) runs its data-loading body for a
\* request unless the session check has passed for that request.
C4_NoLoaderBodyWithoutSession ==
    (gOut.handler \in {"protected", "userinfo", "oidc-details"} /\ gOut.bodyRan)
        => gContext.session.defined

---------------------------------------------------------------------------
(* Claims about the session enricher, checked under Spec *)

\* C8: when the raw profile has no subject, normalization fails, Stage A
\* writes no durable record (token.user is left as it was), and a Stage B
\* that follows reports an absent session.
C8_MissingSubjectYieldsNoRecord ==
    [][/\ (lastOp' = "jwtIssue" /\ jwtArgs'.profile.sub = Undefined)
            => (jwtArgs'.threw /\ token'.user = token.user)
       /\ (/\ lastOp' = "session"
           /\ jwtArgs.profile.defined
           /\ jwtArgs.profile.sub = Undefined)
            => ~session'.defined]_vars

\* C9: whenever Stage B runs while Stage A has written no durable record,
\* the session it returns carries no user and no access token.
C9_NoRecordYieldsAbsentSession ==
    (lastOp = "session" /\ ~token.user.defined)
        => \/ ~session.defined
           \/ (~session.user.defined /\ ~session.accessToken.defined)

\* C10: whenever a durable record exists, the session Stage B returns has
\* the record's user and the record's access token, and Stage B leaves the
\* record unchanged.
C10_SessionProjectsRecord ==
    [][(lastOp' = "session" /\ token.user.defined)
          => /\ session'.user = token.user
             /\ session'.accessToken = token.accessToken
             /\ token' = token]_vars

\* a session read of a record that holds roles and an access token
C10_Witness ==
    /\ lastOp = "session"
    /\ token.user.defined
    /\ token.user.roles.items # <<>>
    /\ token.accessToken.defined
    /\ session.user = token.user
    /\ session.accessToken = token.accessToken

\* the roles derived at the most recent token issuance
IssuedRoles ==
    IF jwtArgs.account.defined
    THEN FetchUserRoles(jwtArgs.profile.sub, jwtArgs.account.access_token).roles
    ELSE <<>>

\* the roles a session view carries
ViewRoles(sess) ==
    IF sess.defined /\ sess.user.defined /\ sess.user.roles.defined
    THEN sess.user.roles.items ELSE <<>>

\* C11: after any sequence of Stage A and Stage B invocations the roles of
\* the session view are among the roles derived at the most recent token
\* issuance, and the record holds exactly those: each issuance replaces
\* the record's roles wholly.
C11_ViewRolesFromLastIssuance ==
    /\ Range(ViewRoles(session)) \subseteq Range(IssuedRoles)
    /\ token.user.defined => token.user.roles.items = IssuedRoles

\* a view read after an issuance without roles, where a view of an earlier
\* record was absent or replaced: the record holds no role
C11_Witness ==
    /\ lastOp = "session"
    /\ token.user.defined
    /\ jwtArgs.account.access_token = TokenWithScope(<<"openid">>)
    /\ jwtArgs.profile.sub = "u1"
    /\ ViewRoles(session) = <<>>

\* C12: when Stage A is invoked without both an account and a profile, it
\* returns the durable record unchanged: token.user and token.accessToken
\* are what they were.
C12_PassThroughUnchanged ==
    [][lastOp' = "jwtPass" => token' = token]_vars

\* a pass-through of a record that holds roles and an access token
C12_Witness ==
    /\ lastOp = "jwtPass"
    /\ token.user.defined
    /\ token.user.roles.items # <<>>
    /\ token.accessToken.defined

\* C13: two successive Stage B invocations against the same durable record,
\* with no issuance in between, return equal session views.
C13_SessionReadIdempotent ==
    (prevSession.defined /\ token.user.defined) => session = prevSession

\* two reads of a record whose user has no email
C13_Witness ==
    /\ prevSession.defined
    /\ token.user.defined
    /\ token.user.email = Undefined
    /\ sessionArg.user.email # Undefined
    /\ session = prevSession

C17_RecordIdIsSubject ==
    token.user.defined =>
        /\ token.user.id # Undefined
        /\ token.user.id = jwtArgs.profile.sub

---------------------------------------------------------------------------
(* Claims about the role checks of the client, checked under SpecClient    *)
(* and SpecGuard                                                           *)

\* the role names of a session value, the absent session included
NamesOf(sess) == IF sess.defined THEN RoleNameSet(sess) ELSE {}

C15_ServerAndClientAgree ==
    (Guarded /\ gRequiredRoles.defined /\ Len(gRequiredRoles.items) = 1) =>
        ((gOut.calls # <<>>)
            <=> ToBoolean(HasRole(gContext.session, gRequiredRoles.items[1])))

\* a request admitted for requiredRoles = ["staff"] with a session whose
\* roles are admin and staff
C15_Witness ==
    /\ Guarded
    /\ gRequiredRoles = List(<<"staff">>)
    /\ NamesOf(gContext.session) = {"admin", "staff"}
    /\ gOut.calls # <<>>

\* C18: in every state in which an admin page renders its page content,
\* the session carries a role named admin.
C18_AdminContentOnlyForAdmins ==
    (cPage \in AdminPages /\ cView = "content") =>
        "admin" \in NamesOf(cSession)

\* C19: every redirect the guard itself returns goes to one of two fixed
\* routes, the sign-in route when no session resolves and the unauthorized
\* route otherwise, whatever the session and the request context hold.
C19_FixedRedirectDestinations ==
    (Guarded /\ gOut.calls = <<>> /\ gOut.result.kind = "redirect") =>
        gOut.result.destination =
              IF gContext.session.defined THEN "/unauthorized"
              ELSE "/api/auth/signin"

\* the second request context, without a session, redirected to sign-in
C19_Witness ==
    /\ Guarded
    /\ gContext.id = 2
    /\ ~gContext.session.defined
    /\ gOut.calls = <<>>
    /\ gOut.result = Redirect("/api/auth/signin")

---------------------------------------------------------------------------
(* Claims about requests in flight at once, checked under SpecRequests *)

\* the record a request's callbacks.jwt returns when it runs alone
AloneToken(r) ==
    JwtCallback(rqInput[r].token, rqInput[r].account, rqInput[r].profile,
                rqInput[r].user)

\* C20: for every interleaving of the steps of two requests that carry
\* different durable records, each request's durable record and session
\* view are those of the request's steps run alone.
C20_RequestsIndependent ==
    \A r \in DOMAIN rqPc :
        /\ rqPc[r] \in {"session", "done"} => rqToken[r] = AloneToken(r)
        /\ rqPc[r] = "done" =>
              rqSession[r] = SessionCallback(rqInput[r].session, AloneToken(r))

\* both requests are sign-ins with different roles, and the second fetched
\* its roles while the first was at its await
C20_Witness ==
    /\ rqPc = [r \in Requests |-> "done"]
    /\ rqInput[1].account.defined
    /\ rqInput[2].account.defined
    /\ rqToken[1].user.roles.items = <<Role("admin", "admin")>>
    /\ rqToken[2].user.roles.items = <<Role("staff", "staff")>>
    /\ rqSession[1].user.id = "u1"
    /\ rqSession[2].user.id = "u2"

---------------------------------------------------------------------------
(* Claims about failures in the guard, checked under SpecGuard *)

\* C21: when resolving the session for a request fails, the guarded loader
\* does not propagate an exception: it returns the sign-in redirect and
\* does not invoke the wrapped loader.
C21_LookupFailureRedirectsToSignIn ==
    (Guarded /\ GetSessionThrows(gContext)) =>
        /\ gOut.result = Redirect("/api/auth/signin")
        /\ gOut.calls = <<>>

---------------------------------------------------------------------------
(* Further claims about the token processor, checked under SpecRoles *)

\* C22: for every access token string with fewer than the three parts of a
\* compact signed token, a two-part string with a recognised scope in its
\* second part included, the token processor returns the empty role set.
C22_FewerThanThreePartsYieldsNoRole ==
    (fResult.called /\ fAccessToken.defined /\ Len(fAccessToken.segs) < 3)
        => fResult.roles = <<>> /\ ~fResult.threw

\* the tokens of a scope string that whitespace separates: its maximal
\* whitespace-free runs
WhitespaceTokens(s) ==
    {SubSeq(s, i, j) : <<i, j>> \in
        {p \in (1..(Len(s) + 1)) \X (0..Len(s)) :
            /\ p[1] <= p[2] + 1
            /\ \A k \in p[1]..p[2] : s[k] \notin Whitespace
            /\ (p[1] = 1 \/ s[p[1] - 1] \in Whitespace)
            /\ (p[2] = Len(s) \/ s[p[2] + 1] \in Whitespace)}}

\* C23: for every scope string whose tokens are separated by any
\* whitespace, each token that is a key of the role table yields its role
\* (for a call that is given a user id).
C23_SplitOnWhitespace ==
    (/\ fResult.called
     /\ ~FalsyStr(fUserId)
     /\ WellFormedWithStringScope(fAccessToken))
        => \A k \in RoleTableKeys :
              <<k>> \in WhitespaceTokens(ScopeStringOf(fAccessToken))
                  => RoleTable(k) \in Range(fResult.roles)

---------------------------------------------------------------------------
(* Further claims about the session enricher, checked under Spec *)

\* C24: for every raw profile that has a subject, fields absent from the
\* profile are given explicit defaults in the normalized user (the object
\* profile() returns): email the empty value, email_verified false,
\* identities the empty list; no field is left undefined.
C24_NormalizedDefaults ==
    (jwtArgs.profile.defined /\ jwtArgs.profile.sub # Undefined) =>
        LET p == jwtArgs.profile
            u == jwtArgs.user
        IN  /\ u.email = IF p.email = Undefined THEN "" ELSE p.email
            /\ u.email_verified =
                  IF p.email_verified.defined THEN p.email_verified
                  ELSE Bool(FALSE)
            /\ u.identities =
                  IF p.identities.defined THEN p.identities ELSE List(<<>>)
            /\ u.name # Undefined

\* C25: the user that Stage A writes into the durable record equals the
\* user profile() returns for the same raw profile and access token.
C25_RecordUserIsNormalizedUser ==
    token.user.defined => token.user = jwtArgs.user

\* the roles the role table gives for the scope of an issued access token
ScopeRoles(t) ==
    IF WellFormedWithStringScope(t) THEN TableImage(ScopeStringOf(t)) ELSE {}

C29_RolesMatchAccessToken ==
    token.user.defined =>
        token.user.roles.items
            = FetchUserRoles(token.user.id, token.accessToken).roles

\* a record of a second issuance, read by a session callback: admin roles
\* with the token that carries the admin scope
C29_Witness ==
    /\ lastOp = "session"
    /\ token.user.defined
    /\ token.accessToken = TokenWithScope(<<"admin">>)
    /\ token.user.roles.items = <<Role("admin", "admin")>>
    /\ session.accessToken = token.accessToken

---------------------------------------------------------------------------
(* Further claims about the route guard, checked under SpecGuard *)

\* a role list is satisfied by a session when it is omitted or empty, or
\* when it has a name in common with the session's roles
Satisfied(requiredRoles, sess) ==
    \/ ~requiredRoles.defined
    \/ requiredRoles.items = <<>>
    \/ RoleNameSet(sess) \cap Range(requiredRoles.items) # {}

\* C26: the doubly wrapped loader withAuth(withAuth(loader, R1), R2)
\* invokes the loader if and only if a session is present and satisfies R2
\* and R1, then returning the loader's result unchanged; otherwise it
\* returns the redirect of the first failing check and does not invoke it.
C26_GuardsCompose ==
    (gOut.handler = "withAuth twice" /\ ~GetSessionThrows(gContext)) =>
        IF /\ gContext.session.defined
           /\ Satisfied(gRequiredRoles, gContext.session)
           /\ Satisfied(gOut.inner, gContext.session)
        THEN /\ gOut.calls = <<gContext>>
             /\ gOut.result = Gssp(gLoader, gContext)
        ELSE /\ gOut.calls = <<>>
             /\ gOut.result =
                   IF gContext.session.defined THEN Redirect("/unauthorized")
                   ELSE Redirect("/api/auth/signin")

\* a session holding staff passes the outer list ["admin", "staff"] and is
\* refused by the inner list ["admin"]
C26_Witness ==
    /\ gOut.handler = "withAuth twice"
    /\ gContext.session.defined
    /\ RoleNameSet(gContext.session) = {"staff"}
    /\ gRequiredRoles = List(<<"admin", "staff">>)
    /\ gOut.inner = List(<<"admin">>)
    /\ gOut.result = Redirect("/unauthorized")
    /\ gOut.calls = <<>>

---------------------------------------------------------------------------
(* Further claims about the client pages, checked under SpecClient and     *)
(* SpecClientFair                                                          *)

\* the session holds the staff role
IsStaffSession(sess) == "staff" \in NamesOf(sess)

C30_SignedInPagesGuard ==
    /\ [](cPage \in SignedInPages =>
            /\ cStatus = "loading" =>
                  /\ cNav = NoPush
                  /\ cPc # "render" => cView = "spinner"
            /\ cSession.defined => cNav = NoPush)
    /\ (cPage \in SignedInPages /\ cStatus = "unauthenticated")
          ~> (cView = "null" /\ cNav = "/unauthorized")

\* the settings page after its status left loading without a session
C30_Witness ==
    /\ cPage = "/settings"
    /\ cStatus = "unauthenticated"
    /\ cView = "null"
    /\ cNav = "/unauthorized"
    /\ cPc = "idle"

=============================================================================
